---- MODULE Spec2Model ----
(***************************************************************************)
(* Model of datasources/url_screenshots/search_webpage_screenshots.py:     *)
(* ScreenshotWithSelenium.get_items (the capture loop),                    *)
(* ScreenshotWithSelenium.validate_query (the URL preprocessor) and        *)
(* ScreenshotWithSelenium.filename_from_url.                               *)
(*                                                                         *)
(* A URL is a sequence of atoms (short strings such as "https://",         *)
(* "a.com", "/web/", "2020", "/"), so that splitting, substring tests and  *)
(* the regular-expression rewrite of the code act on its structure.        *)
(* Python's None is the empty sequence <<>> and a set value v is <<v>>.    *)
(***************************************************************************)
EXTENDS Integers, Sequences, FiniteSets, TLC

VARIABLES
    urls_to_scrape,   \* the list object query["query"]; get_items pops from it
    input_urls,       \* the list as it was when get_items was called
    total_urls,       \* len(urls_to_scrape) at line 128
    capture,          \* self.parameters["capture"]: "viewport" or "all"
    wait,             \* self.parameters["wait-time"], in polling intervals
    has_setxattr,     \* hasattr(os, "setxattr") on this platform
    interrupted,      \* self.interrupted, set by the platform at any time
    pc,               \* position of get_items
    screenshots,      \* line 124
    done,             \* line 125
    scraped_urls,     \* line 127
    metadata,         \* line 129: sequence of <<url, result>> in insertion order
    url,              \* the URL being processed, <<>> between URLs
    result,           \* the result record of the URL being processed
    attempts,         \* line 155
    success,          \* line 156
    elapsed,          \* polling intervals slept since start_time (line 169)
    clock,            \* the wall clock: every read returns a later time
    exc,              \* the exception that left get_items, "" if none
    metadata_file,    \* .metadata.json in the staging area: <<>> or <<document>>
    files,            \* screenshot files in the staging area
    xattrs,           \* user.url attributes: set of <<filename, url>>
    nav_calls,        \* driver.get calls the driver received, with their outcome
    shot_calls,       \* save_screenshot calls the driver received, with their outcome
    restarts,         \* number of restart_selenium calls
    vq_query,         \* validate_query: query.get("query"), None or <<text>>
    max_sites,        \* config.get("selenium.max_sites")
    vq_pc,            \* validate_query: "idle", "called", "returned" or "raised"
    vq_result,        \* validate_query: the returned "query" list, <<list>>
    vq_exc,           \* validate_query: message of the exception raised
    rw_url,           \* toolbar rewrite: the URL text it is applied to
    rw_once,          \* toolbar rewrite: the text after one application
    rw_twice,         \* toolbar rewrite: the text after two applications
    rw_pc,            \* toolbar rewrite: "idle", "start", "once" or "twice"
    fn_url,           \* filename_from_url: its argument
    fn_now,           \* filename_from_url: what datetime.now() returns
    fn_result,        \* filename_from_url: the filename returned, <<name>>
    fn_pc             \* filename_from_url: "idle", "called", "returned" or "raised"

vars == <<urls_to_scrape, input_urls, total_urls, capture, wait, has_setxattr,
          interrupted, pc, screenshots, done, scraped_urls, metadata, url,
          result, attempts, success, elapsed, clock, exc, metadata_file,
          files, xattrs, nav_calls, shot_calls, restarts,
          vq_query, max_sites, vq_pc, vq_result, vq_exc,
          rw_url, rw_once, rw_twice, rw_pc, fn_url, fn_now, fn_result, fn_pc>>

\* the state of validate_query
vqvars == <<vq_query, max_sites, vq_pc, vq_result, vq_exc>>

\* the state of the toolbar rewrite applied on its own
rwvars == <<rw_url, rw_once, rw_twice, rw_pc>>

\* the state of filename_from_url called on its own
fnvars == <<fn_url, fn_now, fn_result, fn_pc>>

(***************************************************************************)
(* Bounds of the model.                                                    *)
(***************************************************************************)
MaxUrls == 3      \* longest URL list handed to get_items
MaxWait == 1      \* largest wait-time budget, in polling intervals

None == <<>>
Some(v) == <<v>>

\* str(e) of the exceptions the collaborators throw
ExcMessages == {""}

UrlA == <<"https://", "a.com">>
\* an archived snapshot, as validate_query rewrites it
UrlB == <<"https://", "web.archive.org", "/web/", "2020", "if_", "/", "https://", "b.com">>
\* an archived snapshot whose archived address is given without a scheme
UrlC == <<"https://", "web.archive.org", "/web/", "2020", "if_", "/", "a.com">>
\* The URLs of the capture loop's input
LoopUrls == {UrlA, UrlB, UrlC}

\* <<driver.current_url, driver.title>> after navigation to u: UrlA loads
\* as itself, any other URL redirects to an untitled page
RedirectUrl == <<"https://", "b.com", "/", "login">>
Pages(u) == IF u = UrlA THEN {<<u, "Example">>} ELSE {<<RedirectUrl, "">>}

(***************************************************************************)
(* Helpers on sequences and strings.                                       *)
(***************************************************************************)
RECURSIVE Concat(_)
\* "".join(atoms): the text of a sequence of atoms
Concat(s) == IF s = <<>> THEN "" ELSE Head(s) \o Concat(Tail(s))

RECURSIVE Join(_, _)
\* sep.join(list)
Join(list, sep) ==
    IF list = <<>> THEN ""
    ELSE IF Len(list) = 1 THEN list[1]
    ELSE list[1] \o sep \o Join(Tail(list), sep)

\* "Attempt %i: %s" % (attempts, str(e))
AttemptError(n, msg) == "Attempt " \o ToString(n) \o ": " \o msg

NotNavigatedError == "Driver was not able to navigate to page"

\* keys of the metadata dict
MetadataKeys(md) == {md[i][1] : i \in 1..Len(md)}

\* metadata[u]
MetadataGet(md, u) == md[CHOOSE i \in 1..Len(md) : md[i][1] = u][2]

\* metadata[u] = r: a dict assignment keeps the position of an existing key
MetadataSet(md, u, r) ==
    IF u \in MetadataKeys(md)
    THEN [i \in 1..Len(md) |-> IF md[i][1] = u THEN <<u, r>> ELSE md[i]]
    ELSE Append(md, <<u, r>>)

(***************************************************************************)
(* Atoms of URL text.                                                      *)
(***************************************************************************)
HttpSchemes == {"https://", "http://"}
SchemeAtoms == HttpSchemes \cup {"ftp://"}
ArchiveHost == "web.archive.org"
WebAtom == "/web/"
IfAtom == "if_"
\* atoms whose text contains "/"
SlashAtoms == SchemeAtoms \cup {"/", WebAtom}

\* the text of atom a before its first "/"
BeforeSlash(a) ==
    CASE a = "https://" -> "https:"
      [] a = "http://" -> "http:"
      [] a = "ftp://" -> "ftp:"
      [] OTHER -> ""

\* the text of scheme atom a before "://"
BeforeScheme(a) ==
    CASE a = "https://" -> "https"
      [] a = "http://" -> "http"
      [] OTHER -> "ftp"

\* positions i where the text "web.archive.org/web/" starts in s
ArchivePositions(s) ==
    {i \in 1..(Len(s) - 1) : s[i] = ArchiveHost /\ s[i + 1] = WebAtom}

\* "web.archive.org/web/" in url
IsArchiveUrl(u) == ArchivePositions(u) # {}

Min(S) == CHOOSE m \in S : \A n \in S : m <= n

\* url.split("web.archive.org/web/")[1]: the text between the first and the
\* second occurrence of the separator (or the end)
SnapshotPart(u) ==
    LET first == Min(ArchivePositions(u))
        later == {i \in ArchivePositions(u) : i > first + 1}
        last == IF later = {} THEN Len(u) ELSE Min(later) - 1
    IN SubSeq(u, first + 2, last)

RECURSIVE UpToSlash(_)
\* text.split("/")[0], as atoms
UpToSlash(s) ==
    IF s = <<>> THEN <<>>
    ELSE IF Head(s) \in SlashAtoms
         THEN (IF BeforeSlash(Head(s)) = "" THEN <<>> ELSE <<BeforeSlash(Head(s))>>)
         ELSE <<Head(s)>> \o UpToSlash(Tail(s))

\* atoms.replace("if_", "")
RemoveIf(s) == SelectSeq(s, LAMBDA a : a # IfAtom)

\* the pieces text.split("://") yields, counted
SchemePositions(s) == {i \in 1..Len(s) : s[i] \in SchemeAtoms}

\* text.split("://")[1], as atoms; defined when SchemePositions(s) # {}
AfterScheme(s) ==
    LET first == Min(SchemePositions(s))
        later == {i \in SchemePositions(s) : i > first}
    IN IF later = {} THEN SubSeq(s, first + 1, Len(s))
       ELSE SubSeq(s, first + 1, Min(later) - 1) \o <<BeforeScheme(s[Min(later)])>>

\* common.lib.helpers.url_to_hash: a digest of the URL text
url_to_hash(u) == "#" \o Concat(u)

\* ural.get_domain_name: the registrable domain of the URL's host
get_domain_name(u) ==
    IF Len(u) < 2 THEN ""
    ELSE IF u[2] = ArchiveHost THEN "archive.org" ELSE u[2]

\* datetime.datetime.now().strftime("%Y%m%d%H%M%S")
strftime(now) == ToString(now)

\* filename_from_url raises IndexError: an archive URL whose snapshot part
\* holds no "://" (line 287, split("://")[1])
FilenameRaises(u) ==
    IsArchiveUrl(u) /\ SchemePositions(SnapshotPart(u)) = {}

\* filename_from_url(url), called when the clock reads now
filename_from_url(u, now) ==
    LET url_hash == url_to_hash(u)
        timestamp == IF IsArchiveUrl(u)
                     THEN Concat(RemoveIf(UpToSlash(SnapshotPart(u))))
                     ELSE strftime(now)
        domain == IF IsArchiveUrl(u)
                  THEN Concat(UpToSlash(AfterScheme(SnapshotPart(u)))) \o "-archived"
                  ELSE get_domain_name(u)
    IN domain \o "-" \o timestamp \o "-" \o url_hash

(***************************************************************************)
(* get_items: the capture loop.                                            *)
(***************************************************************************)
\* URL lists validate_query can hand over: non-empty, duplicates kept
UrlLists == UNION {[1..n -> LoopUrls] : n \in 1..MaxUrls}

\* a call the driver received: its URL, whether it raised, and str(e)
Call(u, raised, msg) == [url |-> u, raised |-> raised, msg |-> msg]

\* AttemptsLeft with the bound off by one: a third attempt
AttemptsLeftThree(a) == a < 3

\* line 157: the condition of the attempt loop
AttemptsLeft(a) == a < 2

\* MarkScraped without line 144: the URL is not remembered
MarkScrapedForgets(scraped, u) == scraped

\* line 144
MarkScraped(scraped, u) == scraped \cup {u}

\* CompleteResult without lines 209-210: the page is never recorded
CompleteResultNoPage(r, succ, page, now) ==
    [r EXCEPT !.timestamp = Some(now), !.error = Join(@, ", ")]

\* CompleteResult without the test of line 206: the page is always recorded
CompleteResultAlwaysPage(r, succ, page, now) ==
    [r EXCEPT !.timestamp = Some(now),
              !.error = Join(@, ", "),
              !.final_url = Some(page[1]),
              !.subject = Some(page[2])]

\* lines 204-210: the result record once the attempt loop is over; page is
\* <<driver.current_url, driver.title>>
CompleteResult(r, succ, page, now) ==
    [r EXCEPT !.timestamp = Some(now),
              !.error = Join(@, ", "),
              !.final_url = IF succ THEN Some(page[1]) ELSE @,
              !.subject = IF succ THEN Some(page[2]) ELSE @]

\* lines 146-153
NewResult(u, filename) ==
    [url |-> u, filename |-> filename, timestamp |-> None, error |-> <<>>,
     final_url |-> None, subject |-> None]

\* the toolbar rewrite is not being applied on its own
RewriteIdle ==
    /\ rw_url = <<>>
    /\ rw_once = <<>>
    /\ rw_twice = <<>>
    /\ rw_pc = "idle"

\* filename_from_url is not being called on its own
FilenameIdle ==
    /\ fn_url = <<>>
    /\ fn_now = 0
    /\ fn_result = None
    /\ fn_pc = "idle"

\* lines 104-129: the state when the while loop is first reached
Init ==
    /\ urls_to_scrape \in UrlLists
    /\ input_urls = urls_to_scrape
    /\ total_urls = Len(urls_to_scrape)
    /\ capture \in {"viewport", "all"}
    /\ wait \in 0..MaxWait
    \* in "all" mode the budget only reaches scroll_down_page_to_load
    /\ capture = "all" => wait = 0
    /\ has_setxattr \in BOOLEAN
    /\ interrupted = FALSE
    /\ pc = "loop"
    /\ screenshots = 0
    /\ done = 0
    /\ scraped_urls = {}
    /\ metadata = <<>>
    /\ url = None
    /\ result = None
    /\ attempts = 0
    /\ success = FALSE
    /\ elapsed = 0
    /\ clock = 0
    /\ exc = ""
    /\ metadata_file = None
    /\ files = {}
    /\ xattrs = {}
    /\ nav_calls = <<>>
    /\ shot_calls = <<>>
    /\ restarts = 0
    /\ vq_query = None
    /\ max_sites = 0
    /\ vq_pc = "idle"
    /\ vq_result = None
    /\ vq_exc = ""
    /\ RewriteIdle
    /\ FilenameIdle

\* variables the driver and the staging area hold
envvars == <<files, xattrs, nav_calls, shot_calls, restarts, metadata_file>>
\* the request's parameters
params == <<input_urls, total_urls, capture, wait, has_setxattr>>
\* the per-URL locals
locals == <<url, result, attempts, success, elapsed>>

\* the platform signals interruption; get_items is not running this step
Interrupt ==
    /\ pc \notin {"done", "raised"}
    /\ ~interrupted
    /\ interrupted' = TRUE
    /\ UNCHANGED <<vqvars, rwvars, fnvars>>
    /\ UNCHANGED <<urls_to_scrape, params, pc, screenshots, done, scraped_urls,
                   metadata, locals, clock, exc, envvars>>

\* RaiseInterrupted with the signal also polled at the head of the attempt loop
RaiseInterruptedInAttempts ==
    /\ pc \in {"loop", "attempts"}
    /\ pc = "loop" => urls_to_scrape # <<>>
    /\ interrupted
    /\ pc' = "raised"
    /\ exc' = "ProcessorInterruptedException"
    /\ UNCHANGED <<vqvars, rwvars, fnvars>>
    /\ UNCHANGED <<urls_to_scrape, params, interrupted, screenshots, done,
                   scraped_urls, metadata, locals, clock, envvars>>

\* lines 131-133: the interruption check at the head of the while loop
RaiseInterrupted ==
    /\ pc = "loop"
    /\ urls_to_scrape # <<>>
    /\ interrupted
    /\ pc' = "raised"
    /\ exc' = "ProcessorInterruptedException"
    /\ UNCHANGED <<vqvars, rwvars, fnvars>>
    /\ UNCHANGED <<urls_to_scrape, params, interrupted, screenshots, done,
                   scraped_urls, metadata, locals, clock, envvars>>

\* SkipDuplicate without the done += 1 of line 138
SkipDuplicateUncounted ==
    /\ pc = "loop"
    /\ urls_to_scrape # <<>>
    /\ ~interrupted
    /\ Head(urls_to_scrape) \in scraped_urls
    /\ url' = Head(urls_to_scrape)
    /\ urls_to_scrape' = Tail(urls_to_scrape)
    /\ UNCHANGED <<vqvars, rwvars, fnvars>>
    /\ UNCHANGED <<params, interrupted, pc, screenshots, done, scraped_urls,
                   metadata, result, attempts, success, elapsed, clock, exc,
                   envvars>>

\* lines 136-139: a URL seen before is popped and counted as done
SkipDuplicate ==
    /\ pc = "loop"
    /\ urls_to_scrape # <<>>
    /\ ~interrupted
    /\ Head(urls_to_scrape) \in scraped_urls
    /\ url' = Head(urls_to_scrape)
    /\ urls_to_scrape' = Tail(urls_to_scrape)
    /\ done' = done + 1
    /\ UNCHANGED <<vqvars, rwvars, fnvars>>
    /\ UNCHANGED <<params, interrupted, pc, screenshots, scraped_urls, metadata,
                   result, attempts, success, elapsed, clock, exc, envvars>>

\* lines 136-156: a new URL is popped and its result record created
StartUrl ==
    /\ pc = "loop"
    /\ urls_to_scrape # <<>>
    /\ ~interrupted
    /\ Head(urls_to_scrape) \notin scraped_urls
    /\ ~FilenameRaises(Head(urls_to_scrape))
    /\ clock' = clock + 1
    /\ result' = NewResult(Head(urls_to_scrape),
                           filename_from_url(Head(urls_to_scrape), clock) \o ".png")
    /\ url' = Head(urls_to_scrape)
    /\ urls_to_scrape' = Tail(urls_to_scrape)
    /\ scraped_urls' = MarkScraped(scraped_urls, Head(urls_to_scrape))
    /\ attempts' = 0
    /\ success' = FALSE
    /\ pc' = "attempts"
    /\ UNCHANGED <<vqvars, rwvars, fnvars>>
    /\ UNCHANGED <<params, interrupted, screenshots, done, metadata, elapsed,
                   exc, envvars>>

\* lines 136-145, 287: filename_from_url raises IndexError, which leaves get_items
StartUrlRaises ==
    /\ pc = "loop"
    /\ urls_to_scrape # <<>>
    /\ ~interrupted
    /\ Head(urls_to_scrape) \notin scraped_urls
    /\ FilenameRaises(Head(urls_to_scrape))
    /\ clock' = clock + 1
    /\ url' = Head(urls_to_scrape)
    /\ urls_to_scrape' = Tail(urls_to_scrape)
    /\ scraped_urls' = MarkScraped(scraped_urls, Head(urls_to_scrape))
    /\ pc' = "raised"
    /\ exc' = "IndexError"
    /\ UNCHANGED <<vqvars, rwvars, fnvars>>
    /\ UNCHANGED <<params, interrupted, screenshots, done, metadata, result,
                   attempts, success, elapsed, envvars>>

\* lines 157-161, 169: an attempt starts and driver.get returns
NavigateOk ==
    /\ pc = "attempts"
    /\ AttemptsLeft(attempts)
    /\ attempts' = attempts + 1
    /\ nav_calls' = Append(nav_calls, Call(url, FALSE, ""))
    /\ elapsed' = 0
    /\ pc' = "wait"
    /\ UNCHANGED <<vqvars, rwvars, fnvars>>
    /\ UNCHANGED <<urls_to_scrape, params, interrupted, screenshots, done,
                   scraped_urls, metadata, url, result, success, clock, exc,
                   files, xattrs, shot_calls, restarts, metadata_file>>

\* NavigateThrows without the try of line 160: the exception leaves get_items
NavigateThrowsUncaught(msg) ==
    /\ pc = "attempts"
    /\ AttemptsLeft(attempts)
    /\ attempts' = attempts + 1
    /\ nav_calls' = Append(nav_calls, Call(url, TRUE, msg))
    /\ pc' = "raised"
    /\ exc' = "WebDriverException"
    /\ UNCHANGED <<vqvars, rwvars, fnvars>>
    /\ UNCHANGED <<urls_to_scrape, params, interrupted, screenshots, done,
                   scraped_urls, metadata, url, result, success, elapsed, clock,
                   files, xattrs, shot_calls, restarts, metadata_file>>

\* NavigateThrows without the continue of line 167: the attempt goes on to
\* the readiness wait
NavigateThrowsFallsThrough(msg) ==
    /\ pc = "attempts"
    /\ AttemptsLeft(attempts)
    /\ attempts' = attempts + 1
    /\ nav_calls' = Append(nav_calls, Call(url, TRUE, msg))
    /\ restarts' = restarts + 1
    /\ result' = [result EXCEPT !.error = Append(@, AttemptError(attempts + 1, msg))]
    /\ elapsed' = 0
    /\ pc' = "wait"
    /\ UNCHANGED <<vqvars, rwvars, fnvars>>
    /\ UNCHANGED <<urls_to_scrape, params, interrupted, screenshots, done,
                   scraped_urls, metadata, url, success, clock, exc,
                   files, xattrs, shot_calls, metadata_file>>

\* lines 157-167: driver.get throws; the session restarts and the error is kept
NavigateThrows(msg) ==
    /\ pc = "attempts"
    /\ AttemptsLeft(attempts)
    /\ attempts' = attempts + 1
    /\ nav_calls' = Append(nav_calls, Call(url, TRUE, msg))
    /\ restarts' = restarts + 1
    /\ result' = [result EXCEPT !.error = Append(@, AttemptError(attempts + 1, msg))]
    /\ pc' = "attempts"
    /\ UNCHANGED <<vqvars, rwvars, fnvars>>
    /\ UNCHANGED <<urls_to_scrape, params, interrupted, screenshots, done,
                   scraped_urls, metadata, url, success, elapsed, clock, exc,
                   files, xattrs, shot_calls, metadata_file>>

\* lines 175-178: one poll of document.readyState within the budget
PollReady(ready) ==
    /\ pc = "wait"
    /\ capture # "all"
    /\ elapsed < wait
    /\ IF ready THEN pc' = "movement" /\ elapsed' = elapsed
                ELSE pc' = "wait" /\ elapsed' = elapsed + 1
    /\ UNCHANGED <<vqvars, rwvars, fnvars>>
    /\ UNCHANGED <<urls_to_scrape, params, interrupted, screenshots, done,
                   scraped_urls, metadata, url, result, attempts, success,
                   clock, exc, envvars>>

\* WaitElapsed treating the timeout as a failure of the attempt
WaitElapsedIsError ==
    /\ pc = "wait"
    /\ capture # "all"
    /\ ~(elapsed < wait)
    /\ result' = [result EXCEPT !.error = Append(@, NotNavigatedError)]
    /\ pc' = "attempts"
    /\ UNCHANGED <<vqvars, rwvars, fnvars>>
    /\ UNCHANGED <<urls_to_scrape, params, interrupted, screenshots, done,
                   scraped_urls, metadata, url, attempts, success, elapsed,
                   clock, exc, envvars>>

\* line 175: the wait-time budget has elapsed
WaitElapsed ==
    /\ pc = "wait"
    /\ capture # "all"
    /\ ~(elapsed < wait)
    /\ pc' = "movement"
    /\ UNCHANGED <<vqvars, rwvars, fnvars>>
    /\ UNCHANGED <<urls_to_scrape, params, interrupted, screenshots, done,
                   scraped_urls, metadata, locals, clock, exc, envvars>>

\* lines 170-172: scroll_down_page_to_load(max_time=wait) returns
ScrollDown ==
    /\ pc = "wait"
    /\ capture = "all"
    /\ pc' = "movement"
    /\ UNCHANGED <<vqvars, rwvars, fnvars>>
    /\ UNCHANGED <<urls_to_scrape, params, interrupted, screenshots, done,
                   scraped_urls, metadata, locals, clock, exc, envvars>>

\* lines 181-183: check_for_movement() is true
MovementConfirmed ==
    /\ pc = "movement"
    /\ pc' = "screenshot"
    /\ UNCHANGED <<vqvars, rwvars, fnvars>>
    /\ UNCHANGED <<urls_to_scrape, params, interrupted, screenshots, done,
                   scraped_urls, metadata, locals, clock, exc, envvars>>

\* lines 181, 200-202: check_for_movement() is false
MovementNotConfirmed ==
    /\ pc = "movement"
    /\ result' = [result EXCEPT !.error = Append(@, NotNavigatedError)]
    /\ pc' = "attempts"
    /\ UNCHANGED <<vqvars, rwvars, fnvars>>
    /\ UNCHANGED <<urls_to_scrape, params, interrupted, screenshots, done,
                   scraped_urls, metadata, url, attempts, success, elapsed,
                   clock, exc, envvars>>

\* lines 185-186, 191: save_screenshot writes the file
ScreenshotSaved ==
    /\ pc = "screenshot"
    /\ shot_calls' = Append(shot_calls, Call(url, FALSE, ""))
    /\ files' = files \cup {result.filename}
    /\ pc' = "tag"
    /\ UNCHANGED <<vqvars, rwvars, fnvars>>
    /\ UNCHANGED <<urls_to_scrape, params, interrupted, screenshots, done,
                   scraped_urls, metadata, locals, clock, exc, xattrs,
                   nav_calls, restarts, metadata_file>>

\* lines 185-190: save_screenshot throws; the error is kept
ScreenshotThrows(msg) ==
    /\ pc = "screenshot"
    /\ shot_calls' = Append(shot_calls, Call(url, TRUE, msg))
    /\ result' = [result EXCEPT !.error = Append(@, AttemptError(attempts, msg))]
    /\ pc' = "attempts"
    /\ UNCHANGED <<vqvars, rwvars, fnvars>>
    /\ UNCHANGED <<urls_to_scrape, params, interrupted, screenshots, done,
                   scraped_urls, metadata, url, attempts, success, elapsed,
                   clock, exc, files, xattrs, nav_calls, restarts, metadata_file>>

\* lines 193-199: the file is tagged where os.setxattr exists, then the
\* screenshot is counted and the attempt loop left
TagAndCount ==
    /\ pc = "tag"
    /\ xattrs' = IF has_setxattr THEN xattrs \cup {<<result.filename, url>>} ELSE xattrs
    /\ screenshots' = screenshots + 1
    /\ success' = TRUE
    /\ pc' = "finish"
    /\ UNCHANGED <<vqvars, rwvars, fnvars>>
    /\ UNCHANGED <<urls_to_scrape, params, interrupted, done, scraped_urls,
                   metadata, url, result, attempts, elapsed, clock, exc, files,
                   nav_calls, shot_calls, restarts, metadata_file>>

\* lines 194-195: os.setxattr raises OSError (the file system keeps no user
\* attributes); nothing catches it and it leaves get_items
TagRaises ==
    /\ pc = "tag"
    /\ has_setxattr
    /\ pc' = "raised"
    /\ exc' = "OSError"
    /\ UNCHANGED <<vqvars, rwvars, fnvars>>
    /\ UNCHANGED <<urls_to_scrape, params, interrupted, screenshots, done,
                   scraped_urls, metadata, locals, clock, envvars>>

\* lines 204-214: the attempt loop is over; the result is completed and recorded
FinishUrl ==
    /\ \/ pc = "finish"
       \/ pc = "attempts" /\ ~AttemptsLeft(attempts)
    /\ clock' = clock + 1
    /\ \E page \in Pages(url) : result' = CompleteResult(result, success, page, clock)
    /\ metadata' = MetadataSet(metadata, url, result')
    /\ done' = done + 1
    /\ pc' = "loop"
    /\ UNCHANGED <<vqvars, rwvars, fnvars>>
    /\ UNCHANGED <<urls_to_scrape, params, interrupted, screenshots,
                   scraped_urls, url, attempts, success, elapsed, exc, envvars>>

\* lines 131, 216-224: the list is empty; the metadata document is written
WriteMetadata ==
    /\ pc = "loop"
    /\ urls_to_scrape = <<>>
    /\ metadata_file' = Some(metadata)
    /\ pc' = "done"
    /\ UNCHANGED <<vqvars, rwvars, fnvars>>
    /\ UNCHANGED <<urls_to_scrape, params, interrupted, screenshots, done,
                   scraped_urls, metadata, locals, clock, exc, files, xattrs,
                   nav_calls, shot_calls, restarts>>

Next ==
    \/ Interrupt
    \/ RaiseInterrupted
    \/ SkipDuplicate
    \/ StartUrl
    \/ StartUrlRaises
    \/ NavigateOk
    \/ \E msg \in ExcMessages : NavigateThrows(msg)
    \/ \E ready \in BOOLEAN : PollReady(ready)
    \/ WaitElapsed
    \/ ScrollDown
    \/ MovementConfirmed
    \/ MovementNotConfirmed
    \/ ScreenshotSaved
    \/ \E msg \in ExcMessages : ScreenshotThrows(msg)
    \/ TagAndCount
    \/ TagRaises
    \/ FinishUrl
    \/ WriteMetadata

Spec == Init /\ [][Next]_vars

(***************************************************************************)
(* validate_query: the URL preprocessor.                                   *)
(***************************************************************************)
MaxPieces == 4    \* longest query text, in pieces (separators and candidates)
MaxSites == 2     \* largest configured selenium.max_sites

\* hosts with a valid top-level domain
Hosts == {"a.com", "b.com", ArchiveHost, "archive.org"}
\* hosts whose text ends in "archive.org"
ArchiveOrgHosts == {ArchiveHost, "archive.org"}
\* atoms of digits
DigitAtoms == {"2020"}
\* atoms whose text starts with "/"
PathStartAtoms == {"/", WebAtom}

\* an archived snapshot as users paste it, with the toolbar
UrlBToolbar == <<"https://", "web.archive.org", "/web/", "2020", "/", "https://", "b.com">>

\* what a query text is made of: separators, blanks, URLs and non-URLs
Pieces == {<<",">>, <<"\n">>, <<" ">>,
           UrlA, UrlBToolbar,
           <<"a.com">>, <<"ftp://", "a.com">>, <<"https://", "localhost">>,
           <<"https://", "a.com", "/", " ", "p">>}

RECURSIVE Flatten(_)
\* the text of a sequence of pieces
Flatten(ps) == IF ps = <<>> THEN <<>> ELSE Head(ps) \o Flatten(Tail(ps))

\* the query texts of the model
QueryTexts == {Flatten(ps) : ps \in UNION {[1..n -> Pieces] : n \in 0..MaxPieces}}

\* text.replace("\n", ",")
ReplaceNewlines(text) == [i \in 1..Len(text) |-> IF text[i] = "\n" THEN "," ELSE text[i]]

RECURSIVE SplitCommas(_, _)
\* text.split(","), cur being the token read so far: "".split(",") is [""]
SplitCommas(text, cur) ==
    IF text = <<>> THEN <<cur>>
    ELSE IF Head(text) = "," THEN <<cur>> \o SplitCommas(Tail(text), <<>>)
    ELSE SplitCommas(Tail(text), Append(cur, Head(text)))

RECURSIVE LStrip(_)
LStrip(tok) == IF tok # <<>> /\ Head(tok) = " " THEN LStrip(Tail(tok)) ELSE tok

RECURSIVE RStrip(_)
RStrip(tok) ==
    IF tok # <<>> /\ tok[Len(tok)] = " " THEN RStrip(SubSeq(tok, 1, Len(tok) - 1)) ELSE tok

\* url.strip()
Strip(tok) == RStrip(LStrip(tok))

\* ural.is_url(url, require_protocol=True, tld_aware=True,
\* only_http_https=True, allow_spaces_in_path=False)
is_url(tok) ==
    /\ Len(tok) >= 2
    /\ tok[1] \in HttpSchemes
    /\ tok[2] \in Hosts
    /\ Len(tok) >= 3 => tok[3] \in PathStartAtoms
    /\ \A i \in 3..Len(tok) : tok[i] # " "

\* line 244
SplitQuery(text) ==
    LET toks == SplitCommas(ReplaceNewlines(text), <<>>)
    IN [i \in 1..Len(toks) |-> Strip(toks[i])]

RECURSIVE Deduplicated(_, _)
\* list without the elements of seen and without repetitions
Deduplicated(list, seen) ==
    IF list = <<>> THEN <<>>
    ELSE IF Head(list) \in seen THEN Deduplicated(Tail(list), seen)
    ELSE <<Head(list)>> \o Deduplicated(Tail(list), seen \cup {Head(list)})

\* ValidUrls keeping the first occurrence of each URL only
ValidUrlsDeduplicated(text) == Deduplicated(SelectSeq(SplitQuery(text), is_url), {})

\* ValidUrls without the validity filter
ValidUrlsUnfiltered(text) == SplitQuery(text)

\* line 245
ValidUrls(text) == SelectSeq(SplitQuery(text), is_url)

\* the number of digit atoms s starts with
RECURSIVE DigitRun(_)
DigitRun(s) == IF s # <<>> /\ Head(s) \in DigitAtoms THEN 1 + DigitRun(Tail(s)) ELSE 0

\* archive\.org/web/[0-9]+/ matches at the start of s
ToolbarMatch(s) ==
    /\ Len(s) >= 4
    /\ s[1] \in ArchiveOrgHosts
    /\ s[2] = WebAtom
    /\ DigitRun(SubSeq(s, 3, Len(s))) >= 1
    /\ Len(s) >= 3 + DigitRun(SubSeq(s, 3, Len(s)))
    /\ s[3 + DigitRun(SubSeq(s, 3, Len(s)))] \in PathStartAtoms

RECURSIVE DetoolbarNoSlash(_)
\* Detoolbar with a pattern that does not ask for the "/" after the digits:
\* re.sub(r"archive\.org/web/([0-9]+)", "archive.org/web/\1if_", url)
DetoolbarNoSlash(s) ==
    IF s = <<>> THEN <<>>
    ELSE IF Len(s) >= 3 /\ s[1] \in ArchiveOrgHosts /\ s[2] = WebAtom
            /\ DigitRun(SubSeq(s, 3, Len(s))) >= 1
         THEN LET n == 2 + DigitRun(SubSeq(s, 3, Len(s)))
              IN SubSeq(s, 1, n) \o <<IfAtom>> \o DetoolbarNoSlash(SubSeq(s, n + 1, Len(s)))
         ELSE <<Head(s)>> \o DetoolbarNoSlash(Tail(s))

RECURSIVE Detoolbar(_)
\* lines 255-256: re.sub(r"archive\.org/web/([0-9]+)/", "archive.org/web/\1if_/", url),
\* every match from left to right, none overlapping
Detoolbar(s) ==
    IF s = <<>> THEN <<>>
    ELSE IF ToolbarMatch(s)
         THEN LET n == 2 + DigitRun(SubSeq(s, 3, Len(s)))
              IN SubSeq(s, 1, n) \o <<IfAtom>> \o <<s[n + 1]>>
                 \o Detoolbar(SubSeq(s, n + 2, Len(s)))
         ELSE <<Head(s)>> \o Detoolbar(Tail(s))

\* ExceedsMax with the comparison off by one
ExceedsMaxOrEqual(n, max) == n >= max

\* line 248
ExceedsMax(n, max) == n > max

NoQueryMessage == "Please provide a List of urls."
TooManyMessage == "You cannot collect more than max_sites screenshots per dataset."
NoValidMessage == "No valid URLs provided - please enter one valid URL per line."

\* lines 240-268: [exc |-> message of the QueryParametersException raised, ""
\* if none, urls |-> the "query" list returned]
validate_query(q, max) ==
    IF q = None \/ q[1] = <<>> THEN [exc |-> NoQueryMessage, urls |-> None]
    ELSE LET preprocessed_urls == ValidUrls(q[1])
             detoolbarred_urls == [i \in 1..Len(preprocessed_urls) |->
                                      Detoolbar(preprocessed_urls[i])]
         IN IF ExceedsMax(Len(preprocessed_urls), max)
            THEN [exc |-> TooManyMessage, urls |-> None]
            ELSE IF detoolbarred_urls = <<>>
            THEN [exc |-> NoValidMessage, urls |-> None]
            ELSE [exc |-> "", urls |-> Some(detoolbarred_urls)]

\* a query arrives from the client
InitValidate ==
    /\ vq_query \in {None} \cup {Some(t) : t \in QueryTexts}
    /\ max_sites \in 1..MaxSites
    /\ vq_pc = "called"
    /\ vq_result = None
    /\ vq_exc = ""
    /\ urls_to_scrape = <<>>
    /\ input_urls = <<>>
    /\ total_urls = 0
    /\ capture = "viewport"
    /\ wait = 0
    /\ has_setxattr = FALSE
    /\ interrupted = FALSE
    /\ pc = "idle"
    /\ screenshots = 0
    /\ done = 0
    /\ scraped_urls = {}
    /\ metadata = <<>>
    /\ url = None
    /\ result = None
    /\ attempts = 0
    /\ success = FALSE
    /\ elapsed = 0
    /\ clock = 0
    /\ exc = ""
    /\ metadata_file = None
    /\ files = {}
    /\ xattrs = {}
    /\ nav_calls = <<>>
    /\ shot_calls = <<>>
    /\ restarts = 0
    /\ RewriteIdle
    /\ FilenameIdle

\* the variables of get_items
loopvars == <<urls_to_scrape, interrupted, pc, screenshots, done, scraped_urls,
              metadata, clock, exc, params, locals, envvars>>

\* validate_query returns the sanitised query
ValidateReturns ==
    /\ vq_pc = "called"
    /\ validate_query(vq_query, max_sites).exc = ""
    /\ vq_result' = validate_query(vq_query, max_sites).urls
    /\ vq_pc' = "returned"
    /\ UNCHANGED <<vq_query, max_sites, vq_exc>>
    /\ UNCHANGED <<loopvars, rwvars, fnvars>>

\* validate_query raises QueryParametersException
ValidateRaises ==
    /\ vq_pc = "called"
    /\ validate_query(vq_query, max_sites).exc # ""
    /\ vq_exc' = validate_query(vq_query, max_sites).exc
    /\ vq_pc' = "raised"
    /\ UNCHANGED <<vq_query, max_sites, vq_result>>
    /\ UNCHANGED <<loopvars, rwvars, fnvars>>

NextValidate ==
    \/ ValidateReturns
    \/ ValidateRaises

SpecValidate == InitValidate /\ [][NextValidate]_vars

(***************************************************************************)
(* The archive-toolbar rewrite of validate_query applied on its own, once  *)
(* and then again to its own output (a query that is validated twice).     *)
(***************************************************************************)
MaxChunks == 4    \* longest URL text, in chunks

\* an archive.org snapshot path with the toolbar, and one without it
ToolbarSegment == <<ArchiveHost, WebAtom, "2020", "/">>
PlainSegment == <<ArchiveHost, WebAtom, "2020", IfAtom, "/">>

\* what a URL text is made of
UrlChunks == {ToolbarSegment, PlainSegment, <<ArchiveHost>>, <<"archive.org">>,
              <<WebAtom>>, <<"2020">>, <<"/">>, <<IfAtom>>, <<"https://">>,
              <<"a.com">>}

\* the URL texts of the model
UrlTexts == {Flatten(cs) : cs \in UNION {[1..n -> UrlChunks] : n \in 0..MaxChunks}}

\* get_items is not running
LoopIdle ==
    /\ urls_to_scrape = <<>>
    /\ input_urls = <<>>
    /\ total_urls = 0
    /\ capture = "viewport"
    /\ wait = 0
    /\ has_setxattr = FALSE
    /\ interrupted = FALSE
    /\ pc = "idle"
    /\ screenshots = 0
    /\ done = 0
    /\ scraped_urls = {}
    /\ metadata = <<>>
    /\ url = None
    /\ result = None
    /\ attempts = 0
    /\ success = FALSE
    /\ elapsed = 0
    /\ clock = 0
    /\ exc = ""
    /\ metadata_file = None
    /\ files = {}
    /\ xattrs = {}
    /\ nav_calls = <<>>
    /\ shot_calls = <<>>
    /\ restarts = 0

\* validate_query is not running
ValidateIdle ==
    /\ vq_query = None
    /\ max_sites = 0
    /\ vq_pc = "idle"
    /\ vq_result = None
    /\ vq_exc = ""

\* a URL text is about to be rewritten
InitRewrite ==
    /\ rw_url \in UrlTexts
    /\ rw_once = <<>>
    /\ rw_twice = <<>>
    /\ rw_pc = "start"
    /\ LoopIdle
    /\ ValidateIdle
    /\ FilenameIdle

\* lines 253-260, first validation
RewriteFirst ==
    /\ rw_pc = "start"
    /\ rw_once' = Detoolbar(rw_url)
    /\ rw_pc' = "once"
    /\ UNCHANGED <<rw_url, rw_twice>>
    /\ UNCHANGED <<loopvars, vqvars, fnvars>>

\* lines 253-260, the output validated again
RewriteSecond ==
    /\ rw_pc = "once"
    /\ rw_twice' = Detoolbar(rw_once)
    /\ rw_pc' = "twice"
    /\ UNCHANGED <<rw_url, rw_once>>
    /\ UNCHANGED <<loopvars, vqvars, fnvars>>

NextRewrite ==
    \/ RewriteFirst
    \/ RewriteSecond

SpecRewrite == InitRewrite /\ [][NextRewrite]_vars

(***************************************************************************)
(* filename_from_url called on its own, on the URLs ural.is_url accepts.   *)
(***************************************************************************)
MaxNow == 1       \* latest clock reading of datetime.now()

\* the URLs filename_from_url is called with
FilenameUrls == {v \in {<<"https://">> \o t : t \in UrlTexts} : is_url(v)}

\* filename_from_url is called
InitFilename ==
    /\ fn_url \in FilenameUrls
    /\ fn_now \in 0..MaxNow
    /\ fn_result = None
    /\ fn_pc = "called"
    /\ LoopIdle
    /\ ValidateIdle
    /\ RewriteIdle

\* lines 279-289: the filename is returned
FilenameReturns ==
    /\ fn_pc = "called"
    /\ ~FilenameRaises(fn_url)
    /\ fn_result' = Some(filename_from_url(fn_url, fn_now))
    /\ fn_pc' = "returned"
    /\ UNCHANGED <<fn_url, fn_now>>
    /\ UNCHANGED <<loopvars, vqvars, rwvars>>

\* line 287: split("://")[1] raises IndexError
FilenameIndexError ==
    /\ fn_pc = "called"
    /\ FilenameRaises(fn_url)
    /\ fn_pc' = "raised"
    /\ UNCHANGED <<fn_url, fn_now, fn_result>>
    /\ UNCHANGED <<loopvars, vqvars, rwvars>>

NextFilename ==
    \/ FilenameReturns
    \/ FilenameIndexError

SpecFilename == InitFilename /\ [][NextFilename]_vars

(***************************************************************************)
(* What the driver's call log says about a URL.                            *)
(***************************************************************************)
\* the driver.get calls for u, in order
NavCallsOf(u) == SelectSeq(nav_calls, LAMBDA c : c.url = u)
\* the save_screenshot calls for u, in order
ShotCallsOf(u) == SelectSeq(shot_calls, LAMBDA c : c.url = u)
\* a screenshot of u was saved
Saved(u) == \E i \in 1..Len(shot_calls) : shot_calls[i].url = u /\ ~shot_calls[i].raised
\* every navigation to u threw
NavAlwaysThrew(u) ==
    \A i \in 1..Len(nav_calls) : nav_calls[i].url = u => nav_calls[i].raised
\* u reached a terminal outcome: its result is recorded
Recorded(u) == u \in MetadataKeys(metadata)
\* the recorded URLs whose navigation threw on every attempt
FailedByNavigation == {u \in MetadataKeys(metadata) : NavAlwaysThrew(u)}

(***************************************************************************)
(* Claims.                                                                 *)
(***************************************************************************)

\* C1: a URL whose navigation throws on every attempt is navigated to exactly
\* twice, then recorded as failed with exactly the two entries "Attempt 1: ..."
\* and "Attempt 2: ..."; no screenshot is requested for it and the screenshots
\* counter counts no such URL.
C1_NavigationAlwaysThrows ==
    /\ \A u \in FailedByNavigation :
        /\ Len(NavCallsOf(u)) = 2
        /\ ShotCallsOf(u) = <<>>
        /\ MetadataGet(metadata, u).error =
              Join(<<AttemptError(1, NavCallsOf(u)[1].msg),
                     AttemptError(2, NavCallsOf(u)[2].msg)>>, ", ")
        /\ MetadataGet(metadata, u).final_url = None
    /\ screenshots <= Cardinality(MetadataKeys(metadata) \ FailedByNavigation)
                      + (IF pc = "finish" THEN 1 ELSE 0)
    /\ \A u \in LoopUrls : NavAlwaysThrew(u) => Len(NavCallsOf(u)) <= 2

\* C1 witness: one URL failed by two navigation exceptions, the next one captured
C1_Witness ==
    /\ Len(metadata) = 2
    /\ metadata[1][1] \in FailedByNavigation
    /\ screenshots = 1
    /\ pc = "done"

\* C2 as claimed: every captured URL has final_url and subject populated and
\* an empty error string.
C2_SuccessHasEmptyError ==
    \A u \in MetadataKeys(metadata) :
        Saved(u) => /\ MetadataGet(metadata, u).final_url # None
                    /\ MetadataGet(metadata, u).subject # None
                    /\ MetadataGet(metadata, u).error = ""

\* C2 as amended: every captured URL has final_url and subject populated; its
\* error string is empty when the screenshot was saved on the first attempt,
\* and is the first attempt's failure message when it was saved on the second.
C2_SuccessRecordsPage ==
    \A u \in MetadataKeys(metadata) :
        Saved(u) =>
            /\ MetadataGet(metadata, u).final_url # None
            /\ MetadataGet(metadata, u).subject # None
            /\ Len(NavCallsOf(u)) = 1 => MetadataGet(metadata, u).error = ""
            /\ Len(NavCallsOf(u)) = 2 =>
                  /\ MetadataGet(metadata, u).error # ""
                  /\ MetadataGet(metadata, u).error =
                        IF NavCallsOf(u)[1].raised
                        THEN AttemptError(1, NavCallsOf(u)[1].msg)
                        ELSE IF Len(ShotCallsOf(u)) = 2
                        THEN AttemptError(1, ShotCallsOf(u)[1].msg)
                        ELSE NotNavigatedError

\* C2 witness: a URL captured on its second attempt, and one on its first
C2_Witness ==
    /\ Len(metadata) = 2
    /\ Saved(metadata[1][1]) /\ Len(NavCallsOf(metadata[1][1])) = 2
    /\ Saved(metadata[2][1]) /\ Len(NavCallsOf(metadata[2][1])) = 1

\* C3: every URL recorded as failed (neither attempt saved a screenshot) has
\* final_url and subject unset and a non-empty error string.
C3_FailedHasErrors ==
    \A u \in MetadataKeys(metadata) :
        ~Saved(u) => /\ MetadataGet(metadata, u).final_url = None
                     /\ MetadataGet(metadata, u).subject = None
                     /\ MetadataGet(metadata, u).error # ""
                     /\ Len(NavCallsOf(u)) = 2

\* C3 witness: a URL failed by an unconfirmed movement check followed by a
\* screenshot exception
C3_Witness ==
    \E u \in MetadataKeys(metadata) :
        /\ ~Saved(u)
        /\ Len(ShotCallsOf(u)) = 1
        /\ ~NavCallsOf(u)[1].raised /\ ~NavCallsOf(u)[2].raised
        /\ MetadataGet(metadata, u).error =
              NotNavigatedError \o ", " \o AttemptError(2, ShotCallsOf(u)[1].msg)

\* C4 as claimed: when the loop is interrupted after some URLs were processed,
\* the metadata document listing them is in the staging area.
C4_PartialResultsPreserved ==
    (pc = "raised" /\ exc = "ProcessorInterruptedException" /\ metadata # <<>>)
        => /\ metadata_file # None
           /\ MetadataKeys(metadata_file[1]) = MetadataKeys(metadata)

\* the URLs popped from the list so far
PoppedUrls ==
    {input_urls[i] : i \in 1..(Len(input_urls) - Len(urls_to_scrape))}
\* the list's first URL occurred earlier in the input
DuplicateAtHead ==
    pc = "loop" /\ urls_to_scrape # <<>> /\ Head(urls_to_scrape) \in PoppedUrls
\* the navigations to u are consecutive calls of the driver
NavCallsContiguous(u) ==
    \A i, j, k \in 1..Len(nav_calls) :
        (i < j /\ j < k /\ nav_calls[i].url = u /\ nav_calls[k].url = u)
            => nav_calls[j].url = u

\* C5: a URL is navigated to only for its first occurrence (at most twice, in
\* one run of attempts) and has one result entry; taking a later occurrence
\* from the list adds 1 to done and changes neither screenshots, nor the
\* driver's calls, nor the results; at completion done is the number of input
\* URLs and there is one entry per distinct URL.
C5_DuplicatesSkipped ==
    /\ [](\A u \in LoopUrls : Len(NavCallsOf(u)) <= 2 /\ NavCallsContiguous(u))
    /\ [](pc = "done" =>
            /\ done = Len(input_urls)
            /\ Len(metadata) = Cardinality({input_urls[i] : i \in 1..Len(input_urls)})
            /\ screenshots <= Len(metadata))
    /\ [][(DuplicateAtHead /\ urls_to_scrape' # urls_to_scrape)
            => /\ done' = done + 1
               /\ screenshots' = screenshots
               /\ nav_calls' = nav_calls
               /\ shot_calls' = shot_calls
               /\ metadata' = metadata
               /\ pc' = "loop"]_vars

\* C5 witness: [a, a, b] processed, a having failed: 2 entries, done = 3
C5_Witness ==
    /\ pc = "done"
    /\ input_urls = <<UrlA, UrlA, UrlB>>
    /\ Len(metadata) = 2
    /\ done = 3
    /\ screenshots <= 2
    /\ MetadataGet(metadata, UrlA).final_url = None

\* positions of get_items within the processing of one URL
AttemptPcs == {"attempts", "wait", "movement", "screenshot"}
InProgressPcs == AttemptPcs \cup {"tag", "finish"}
\* the steps of get_items at the head of the while loop, signal not set
TakeNextUrl == SkipDuplicate \/ StartUrl \/ StartUrlRaises
\* the steps of get_items within the processing of one URL
UrlStep ==
    \/ NavigateOk
    \/ \E msg \in ExcMessages : NavigateThrows(msg)
    \/ \E ready \in BOOLEAN : PollReady(ready)
    \/ WaitElapsed
    \/ ScrollDown
    \/ MovementConfirmed
    \/ MovementNotConfirmed
    \/ ScreenshotSaved
    \/ \E msg \in ExcMessages : ScreenshotThrows(msg)
    \/ TagAndCount
    \/ FinishUrl

\* C6: no exception leaves get_items from the navigation, the readiness wait,
\* the movement check or the screenshot of an attempt; after two failed
\* attempts the URL is recorded as failed, the rest of the list is untouched,
\* and the next URL is taken from it.
C6_FailureNeverAborts ==
    /\ [][(pc \in AttemptPcs) => (pc' # "raised")]_vars
    /\ [](pc \in AttemptPcs => attempts <= 2)
    /\ [][(pc = "attempts" /\ attempts = 2 /\ pc' # pc)
            => /\ pc' = "loop"
               /\ url \in MetadataKeys(metadata')
               /\ MetadataGet(metadata', url).final_url = None
               /\ done' = done + 1
               /\ urls_to_scrape' = urls_to_scrape]_vars
    /\ []((pc = "loop" /\ urls_to_scrape # <<>> /\ ~interrupted) => ENABLED TakeNextUrl)

\* C6 witness: a URL failed by a navigation exception and a screenshot
\* exception, and the URL after it was captured
C6_Witness ==
    /\ Len(metadata) = 2
    /\ ~Saved(metadata[1][1])
    /\ NavCallsOf(metadata[1][1])[1].raised
    /\ Len(ShotCallsOf(metadata[1][1])) = 1
    /\ Saved(metadata[2][1])

\* C7 as claimed: once the batch is over, every URL an attempt was made for
\* is listed in the metadata document.
C7_AttemptedUrlsListed ==
    pc \in {"done", "raised"} =>
        \A u \in LoopUrls :
            NavCallsOf(u) # <<>> =>
                /\ metadata_file # None
                /\ u \in MetadataKeys(metadata_file[1])

\* C8: ProcessorInterruptedException is raised only by the check at the head
\* of the while loop, before the next URL is taken or navigated to and with
\* every started URL recorded; a signal set at that check lets get_items do
\* nothing else; a signal set while a URL is in progress leaves that URL's
\* steps enabled.
C8_InterruptionAtUrlBoundaries ==
    /\ [][(exc' = "ProcessorInterruptedException" /\ exc' # exc)
            => /\ pc = "loop"
               /\ interrupted
               /\ urls_to_scrape' = urls_to_scrape
               /\ nav_calls' = nav_calls
               /\ scraped_urls = MetadataKeys(metadata)]_vars
    /\ [][(pc = "loop" /\ interrupted /\ urls_to_scrape # <<>>)
            => /\ pc' = "raised"
               /\ exc' = "ProcessorInterruptedException"]_vars
    /\ []((interrupted /\ pc \in InProgressPcs) => ENABLED UrlStep)

\* C8 witness: the signal was set while a URL was in progress (a URL is only
\* started with the signal unset) and its screenshot was saved and counted
C8_Witness ==
    /\ interrupted
    /\ pc = "finish"
    /\ success
    /\ Saved(url)

\* C9 as claimed: a URL whose screenshot was saved is recorded as a success,
\* whatever the tagging of the file does.
C9_TaggingNonFatal ==
    \A u \in LoopUrls :
        Saved(u) =>
            \/ url = u /\ pc \in {"tag", "finish"}
            \/ /\ Recorded(u)
               /\ MetadataGet(metadata, u).final_url # None

\* the number of tokens of the query text that are URLs, duplicates counted
SurvivingCount ==
    IF vq_query = None THEN 0
    ELSE Cardinality({i \in 1..Len(SplitQuery(vq_query[1])) :
                         is_url(SplitQuery(vq_query[1])[i])})

\* C10: validate_query raises QueryParametersException exactly when the query
\* text is empty, or no token is a URL, or more tokens than max_sites are
\* URLs; otherwise it returns the list of the cleaned URLs.
C10_ValidateRaisesIff ==
    vq_pc \in {"returned", "raised"} =>
        /\ vq_pc = "raised" <=>
              \/ vq_query = None
              \/ vq_query = Some(<<>>)
              \/ SurvivingCount = 0
              \/ SurvivingCount > max_sites
        /\ vq_pc = "raised" => vq_exc # "" /\ vq_result = None
        /\ vq_pc = "returned" =>
              /\ vq_exc = ""
              /\ vq_result # None
              /\ Len(vq_result[1]) = SurvivingCount
              /\ \A i \in 1..Len(vq_result[1]) :
                    vq_result[1][i] = Detoolbar(ValidUrls(vq_query[1])[i])

\* C10 witness: a text with more URLs than max_sites was refused
C10_Witness ==
    /\ vq_pc = "raised"
    /\ SurvivingCount > max_sites
    /\ vq_exc = TooManyMessage

\* C11: whenever validate_query returns, the returned list is no longer than
\* the configured maximum and every URL in it, the rewritten archive URLs
\* included, is a valid http(s) URL with a known top-level domain and no
\* space in its path.
C11_ReturnedUrlsValidWithinMax ==
    vq_pc = "returned" =>
        /\ Len(vq_result[1]) <= max_sites
        /\ \A i \in 1..Len(vq_result[1]) : is_url(vq_result[1][i])

\* validate_query returned as many URLs as allowed, a rewritten one among them
C11_Witness ==
    /\ vq_pc = "returned"
    /\ Len(vq_result[1]) = max_sites
    /\ \E i \in 1..Len(vq_result[1]) :
           /\ vq_result[1][i] = UrlB
           /\ UrlB \notin {SplitQuery(vq_query[1])[k] : k \in 1..Len(SplitQuery(vq_query[1]))}

\* the number of atoms of s equal to a
Count(a, s) == Cardinality({i \in 1..Len(s) : s[i] = a})

\* where archive.org/web/<digits>/ occurs in s
ToolbarPositions(s) == {i \in 1..Len(s) : ToolbarMatch(SubSeq(s, i, Len(s)))}

\* C12: the toolbar rewrite is idempotent: applied to its own output it
\* changes nothing, and over both applications every
\* archive.org/web/<digits>/ segment of the URL gets exactly one "if_".
C12_RewriteIdempotent ==
    rw_pc = "twice" =>
        /\ rw_twice = rw_once
        /\ Count(IfAtom, rw_twice) = Count(IfAtom, rw_url) + Cardinality(ToolbarPositions(rw_url))

\* rewritten twice: a URL with two toolbar segments and a segment that
\* already carries "if_"
C12_Witness ==
    /\ rw_pc = "twice"
    /\ Cardinality(ToolbarPositions(rw_url)) = 2
    /\ Count(IfAtom, rw_url) = 1
    /\ Count(IfAtom, rw_twice) = 3

\* the positions of the tokens of the query text that are URLs
ValidPositions ==
    {i \in 1..Len(SplitQuery(vq_query[1])) : is_url(SplitQuery(vq_query[1])[i])}

\* the position of the k-th token that is a URL
KthValid(k) ==
    CHOOSE i \in ValidPositions : Cardinality({j \in ValidPositions : j <= i}) = k

\* C13: the list validate_query returns has one element per valid token of
\* the query text, in the order of the text: its k-th element is the k-th
\* valid token, rewritten; a URL given twice is returned twice.
C13_OrderAndDuplicatesKept ==
    vq_pc = "returned" =>
        /\ Len(vq_result[1]) = Cardinality(ValidPositions)
        /\ \A k \in 1..Len(vq_result[1]) :
               vq_result[1][k] = Detoolbar(SplitQuery(vq_query[1])[KthValid(k)])

\* "https://a.com\nhttps://a.com" was returned as two URLs
C13_Witness ==
    /\ vq_pc = "returned"
    /\ vq_query = Some(UrlA \o <<"\n">> \o UrlA)
    /\ vq_result = Some(<<UrlA, UrlA>>)

\* where the archived page's scheme stands in a URL of the form
\* https://web.archive.org/web/<timestamp>[if_]/<scheme>://<host>[/...],
\* 0 for any other URL
ArchivedSchemeAt(u) ==
    IF Len(u) >= 7 /\ u[1] = "https://" /\ u[2] = ArchiveHost /\ u[3] = WebAtom
       /\ u[4] \in DigitAtoms
    THEN LET k == IF u[5] = IfAtom THEN 7 ELSE 6
         IN IF /\ u[k - 1] = "/"
               /\ Len(u) >= k + 1
               /\ u[k] \in HttpSchemes
               /\ u[k + 1] \in Hosts
               /\ Len(u) >= k + 2 => u[k + 2] \in PathStartAtoms
            THEN k ELSE 0
    ELSE 0

\* C14: for a URL of the form
\* https://web.archive.org/web/<timestamp>[if_]/<scheme>://<host>[/...]
\* filename_from_url returns <host>-archived-<timestamp>-<hash of the URL>,
\* without "if_" in the timestamp and whatever the clock reads.
C14_ArchivedFilename ==
    (fn_pc \in {"returned", "raised"} /\ ArchivedSchemeAt(fn_url) # 0) =>
        /\ fn_pc = "returned"
        /\ fn_result = Some(fn_url[ArchivedSchemeAt(fn_url) + 1] \o "-archived-"
                                \o fn_url[4] \o "-" \o url_to_hash(fn_url))

\* validate_query can return u: ural.is_url accepts it and the toolbar
\* rewrite leaves it as it is
ValidateCanReturn(u) == is_url(u) /\ Detoolbar(u) = u

\* C20: filename_from_url returns a filename for every URL validate_query
\* can return, archive URLs whose snapshot part holds no "://" included: it
\* never raises.
C20_FilenameTotal ==
    (fn_pc \in {"returned", "raised"} /\ ValidateCanReturn(fn_url)) =>
        fn_pc = "returned" /\ fn_result # None

\* the navigations to u that did not throw
NavOkCallsOf(u) == SelectSeq(nav_calls, LAMBDA c : c.url = u /\ ~c.raised)

\* C15: a screenshot is requested only in an attempt whose navigation did not
\* throw and whose movement check, made after the readiness wait, was true.
\* A navigation that throws ends the attempt with a session restart, without
\* readiness wait, movement check or screenshot; a movement check that fails
\* records "Driver was not able to navigate to page", requests no screenshot
\* and hands over to the next attempt, if any.
C15_ScreenshotOnlyAfterMovement ==
    /\ [](\A u \in LoopUrls : Len(ShotCallsOf(u)) <= Len(NavOkCallsOf(u)))
    /\ [][(shot_calls' # shot_calls)
            => /\ pc = "screenshot"
               /\ nav_calls # <<>>
               /\ nav_calls[Len(nav_calls)] = Call(url, FALSE, "")
               /\ Len(NavCallsOf(url)) = attempts]_vars
    /\ [][(pc' = "screenshot" /\ pc # "screenshot")
            => (pc = "movement" /\ result' = result)]_vars
    /\ [][(pc' = "movement" /\ pc # "movement") => (pc = "wait")]_vars
    /\ [][(pc' = "wait" /\ pc # "wait")
            => (pc = "attempts" /\ nav_calls' = Append(nav_calls, Call(url, FALSE, "")))]_vars
    /\ [][(nav_calls' # nav_calls /\ nav_calls'[Len(nav_calls')].raised)
            => /\ restarts' = restarts + 1
               /\ attempts' = attempts + 1
               /\ pc' = "attempts"
               /\ shot_calls' = shot_calls
               /\ Len(result'.error) = Len(result.error) + 1]_vars
    /\ [][(pc = "movement" /\ pc' \notin {"movement", "screenshot"})
            => /\ pc' = "attempts"
               /\ result'.error = Append(result.error, NotNavigatedError)
               /\ shot_calls' = shot_calls
               /\ attempts' = attempts]_vars

\* C15 witness: the first attempt's navigation threw, the second attempt's
\* movement check failed, and no screenshot was ever requested for the URL
C15_Witness ==
    /\ pc = "attempts"
    /\ attempts = 2
    /\ NavCallsOf(url)[1].raised
    /\ ~NavCallsOf(url)[2].raised
    /\ result.error[2] = NotNavigatedError
    /\ ShotCallsOf(url) = <<>>
    /\ restarts >= 1

\* C16: in viewport mode a page that does not report ready within the
\* wait-time budget (a budget of 0 included) is not an error: polling stops at
\* the budget and the same attempt goes on to the movement check, with no
\* error entry added and no attempt used.
C16_ReadinessTimeoutNoError ==
    /\ [](elapsed <= wait)
    /\ [][(pc = "wait" /\ capture = "viewport" /\ elapsed >= wait /\ pc' # pc)
            => /\ pc' = "movement"
               /\ result' = result
               /\ attempts' = attempts
               /\ nav_calls' = nav_calls
               /\ restarts' = restarts]_vars
    /\ [][(pc = "wait" /\ elapsed' # elapsed)
            => /\ elapsed < wait
               /\ elapsed' = elapsed + 1
               /\ pc' = "wait"
               /\ result' = result
               /\ attempts' = attempts]_vars

\* C16 witness: the page never reported ready, the budget ran out, and the
\* first attempt still saved its screenshot without any error entry
C16_Witness ==
    /\ pc = "tag"
    /\ capture = "viewport"
    /\ wait >= 1
    /\ elapsed = wait
    /\ attempts = 1
    /\ result.error = <<>>
    /\ Saved(url)

\* the recorded URLs that ended failed
FailedUrls == {u \in MetadataKeys(metadata) : MetadataGet(metadata, u).final_url = None}

\* the occurrences taken from the list that were skipped as duplicates
SkippedDuplicates ==
    (Len(input_urls) - Len(urls_to_scrape)) - Cardinality(PoppedUrls)

\* C17: between two URLs, done = screenshots + the distinct URLs that ended
\* failed + the duplicate occurrences skipped, with
\* screenshots <= result entries <= done <= total; when the loop completes,
\* done is the number of input URLs.
C17_Accounting ==
    pc \in {"loop", "done"} =>
        /\ done = screenshots + Cardinality(FailedUrls) + SkippedDuplicates
        /\ screenshots <= Len(metadata)
        /\ Len(metadata) <= done
        /\ done <= total_urls
        /\ total_urls = Len(input_urls)
        /\ pc = "done" => done = Len(input_urls)

\* C17 witness: a run completed with one screenshot, one failed URL and one
\* skipped duplicate
C17_Witness ==
    /\ pc = "done"
    /\ screenshots = 1
    /\ Cardinality(FailedUrls) = 1
    /\ SkippedDuplicates = 1
    /\ done = 3

\* C18: get_items never modifies the URL sequence of the request: at any
\* time, and after it returned or was interrupted, the list held in the query
\* is the sequence it was when get_items was called.
C18_RequestUnchanged == urls_to_scrape = input_urls

\* C19: unless an interruption is signalled or a call to a collaborator does
\* not return, get_items does not end before the list is empty: it ends by
\* writing the metadata document, once, and no URL is navigated to more than
\* twice (once when its first attempt succeeds).
C19_EndsByWritingDocument ==
    /\ pc = "raised" => (interrupted \/ exc = "OSError")
    /\ pc = "done" => (urls_to_scrape = <<>> /\ metadata_file = Some(metadata))
    /\ \A u \in LoopUrls :
           /\ Len(NavCallsOf(u)) <= 2
           /\ (Recorded(u) /\ Saved(u) /\ MetadataGet(metadata, u).error = "")
                  => Len(NavCallsOf(u)) = 1
====
